---- MODULE Spec2Model ----
(***************************************************************************)
(* Model of list_github_workflows.py: listing an organization's            *)
(* repositories, shallow-cloning each one, extracting the external `uses`  *)
(* references of its workflow files and printing the usage report.         *)
(*                                                                         *)
(* Strings are sequences of code points, so that str.startswith,           *)
(* str.endswith and the lexicographic order of sorted() are computed and   *)
(* not assumed.                                                            *)
(***************************************************************************)
EXTENDS Integers, Sequences, FiniteSets, TLC

VARIABLES
    pc,              \* position of main(): see PcValues
    exit_status,     \* process exit status once terminated, Running before
    error,           \* what raised the exception that ended the run, if any
    temp_dir,        \* the TemporaryDirectory of main: "absent", "exists", "removed"
    cloned,          \* basenames of the working copies present under temp_dir
    repos,           \* main.repos: the sequence returned by list_organization_repos
    i,               \* 1-based index of the main loop
    repo_path,       \* main.repo_path of the current iteration ("" on failure)
    results,         \* main.results: insertion-ordered dict repo -> workflows
    messages,        \* user-visible lines printed outside the report
    report,          \* what generate_report printed
    workflow_file,   \* extract_uses_from_workflow under test: the file's content
    uses_references, \* ... and the set it returned
    xpc              \* ... and its position: "idle", "ready", "returned"

vars == <<pc, exit_status, error, temp_dir, cloned, repos, i, repo_path, results,
          messages, report, workflow_file, uses_references, xpc>>

pipelineVars == <<pc, exit_status, error, temp_dir, cloned, repos, i, repo_path,
                  results, messages, report>>
extractVars == <<workflow_file, uses_references, xpc>>

----------------------------------------------------------------------------
(* Bounds *)

MaxRepos == 3   \* lines of `gh repo list` output considered
MaxNodes == 5   \* nodes of a generated workflow document

----------------------------------------------------------------------------
(* Strings as code-point sequences *)

EmptyStr == <<>>
KeyUses == <<117, 115, 101, 115>>            \* "uses"
KeyJobs == <<106, 111, 98, 115>>             \* "jobs"
KeySteps == <<115, 116, 101, 112, 115>>      \* "steps"
LocalMarker == <<46, 47>>                    \* "./"
ExtYml == <<46, 121, 109, 108>>              \* ".yml"
ExtYaml == <<46, 121, 97, 109, 108>>         \* ".yaml"

RefA == <<97, 64, 118, 49>>                  \* "a@v1"
RefB == <<98, 64, 118, 49>>                  \* "b@v1"
RefC == <<99, 64, 118, 49>>                  \* "c@v1"
RefZ == <<122, 64, 118, 49>>                 \* "z@v1"
RefLocal == <<46, 47, 108>>                  \* "./l"

startswith(s, prefix) ==
    /\ Len(s) >= Len(prefix)
    /\ SubSeq(s, 1, Len(prefix)) = prefix

endswith(s, suffix) ==
    /\ Len(s) >= Len(suffix)
    /\ SubSeq(s, Len(s) - Len(suffix) + 1, Len(s)) = suffix

\* Python's str.__lt__: code-point lexicographic order
RECURSIVE StrLess(_, _)
StrLess(a, b) ==
    IF b = <<>> THEN FALSE
    ELSE IF a = <<>> THEN TRUE
    ELSE IF Head(a) # Head(b) THEN Head(a) < Head(b)
    ELSE StrLess(Tail(a), Tail(b))

\* sorted() left out: the sequence as it was given
sorted_Unsorted(s, order) == s

\* sorted(): a stable sort; x goes before the first element it is strictly
\* before. order "ascending" is sorted(strings); order "count_descending" is
\* sorted(items, key=lambda x: x[1], reverse=True), which keeps items of equal
\* count in the order given.
sorted(s, order) ==
    LET Before(x, y) == IF order = "ascending" THEN StrLess(x, y) ELSE x[2] > y[2]
        RECURSIVE InsertStable(_, _)
        InsertStable(x, t) ==
            IF t = <<>> THEN <<x>>
            ELSE IF Before(x, Head(t)) THEN <<x>> \o t
            ELSE <<Head(t)>> \o InsertStable(x, Tail(t))
        RECURSIVE SortFrom(_, _)
        SortFrom(t, acc) ==
            IF t = <<>> THEN acc
            ELSE SortFrom(Tail(t), InsertStable(Head(t), acc))
    IN SortFrom(s, <<>>)

Range(s) == {s[k] : k \in 1..Len(s)}

\* every enumeration of a finite set as a sequence without repetition
Orders(S) == {s \in [1..Cardinality(S) -> S] : Range(s) = S}

----------------------------------------------------------------------------
(* Workflow documents: what yaml.safe_load returns *)

Str(s) == [t |-> "str", v |-> s]
IntOne == [t |-> "int", v |-> <<1>>]
List(items) == [t |-> "list", v |-> items]
Dict(items) == [t |-> "dict", v |-> items]     \* items: sequence of <<key, value>>
Invalid == [t |-> "invalid", v |-> <<>>]       \* bytes that yaml.safe_load rejects

----------------------------------------------------------------------------
(* extract_uses_from_workflow *)

RECURSIVE find_uses(_, _), find_uses_dict(_, _), find_uses_list(_, _)

find_uses_dict(items, acc) ==
    IF items = <<>> THEN acc
    ELSE LET key == Head(items)[1]
             value == Head(items)[2]
             acc1 == IF key = KeyUses /\ value.t = "str"
                     THEN IF ~startswith(value.v, LocalMarker)
                          THEN acc \cup {value.v}
                          ELSE acc
                     ELSE find_uses(value, acc)
         IN find_uses_dict(Tail(items), acc1)

find_uses_list(items, acc) ==
    IF items = <<>> THEN acc
    ELSE find_uses_list(Tail(items), find_uses(Head(items), acc))

\* find_uses without the `elif isinstance(obj, list)` branch
find_uses_NoList(obj, acc) ==
    IF obj.t = "dict" THEN find_uses_dict(obj.v, acc) ELSE acc

find_uses(obj, acc) ==
    IF obj.t = "dict" THEN find_uses_dict(obj.v, acc)
    ELSE IF obj.t = "list" THEN find_uses_list(obj.v, acc)
    ELSE acc

\* yaml.safe_load: the decoded value, or an exception
safe_load(content) ==
    IF content.t = "invalid" THEN [raises |-> TRUE, value |-> content]
    ELSE [raises |-> FALSE, value |-> content]

\* extract_uses_from_workflow without its try/except: a decoding error leaves it
extract_uses_from_workflow_NoExcept(content) ==
    LET loaded == safe_load(content)
    IN IF loaded.raises THEN [raised |-> TRUE, uses |-> {}]
       ELSE IF loaded.value.t # "dict" THEN [raised |-> FALSE, uses |-> {}]
       ELSE [raised |-> FALSE, uses |-> find_uses(loaded.value, {})]

\* the result of the call: the set returned, and whether an exception left it.
\* `except Exception` returns the set built so far, which is empty when
\* decoding is what failed.
extract_uses_from_workflow(content) ==
    LET loaded == safe_load(content)
    IN IF loaded.raises THEN [raised |-> FALSE, uses |-> {}]
       ELSE IF loaded.value.t # "dict" THEN [raised |-> FALSE, uses |-> {}]
       ELSE [raised |-> FALSE, uses |-> find_uses(loaded.value, {})]

----------------------------------------------------------------------------
(* Generated workflow documents, by number of nodes *)

Scalars == {Str(RefA), Str(RefB), Str(RefLocal), IntOne}
Keys == {KeyUses, KeyJobs}

\* the sequences of m distinct keys: a mapping holds a key once
KeySeqs(m) == {ks \in [1..m -> Keys] : \A a, b \in 1..m : ks[a] = ks[b] => a = b}

\* the documents with n nodes, given the sequences of documents with n - 1
\* nodes in all: a scalar, or a list or a mapping over such a sequence
DocsOfSize(n, forests) ==
    IF n = 1 THEN Scalars
    ELSE {List(f) : f \in forests}
         \cup UNION {{Dict([j \in 1..Len(f) |-> <<ks[j], f[j]>>]) : ks \in KeySeqs(Len(f))}
                     : f \in forests}

\* ds[k]: the documents with k nodes; fs[k + 1]: the sequences of documents
\* with k nodes in all; both built up to size n - 1 so far
RECURSIVE BuildDocs(_, _, _, _)
BuildDocs(n, ds, fs, size) ==
    LET ds1 == Append(ds, DocsOfSize(n, fs[n]))
        forests == UNION {{<<d>> \o f : d \in ds1[k], f \in fs[n - k + 1]} : k \in 1..n}
    IN IF n >= size THEN UNION Range(ds1)
       ELSE BuildDocs(n + 1, ds1, Append(fs, forests), size)

\* the documents of at most `size` nodes
Documents(size) == BuildDocs(1, <<>>, <<{<<>>}>>, size)

----------------------------------------------------------------------------
(* extract_uses_from_workflow on its own *)

NoReport ==
    [printed |-> FALSE, total_repos |-> 0, repos_with_workflows |-> 0,
     total_workflows |-> 0, unique_actions |-> 0, detailed |-> <<>>,
     popular_printed |-> FALSE, popular |-> <<>>]

ExtractInit ==
    /\ pc = "idle" /\ exit_status = -1 /\ error = "none" /\ temp_dir = "absent"
    /\ cloned = {} /\ repos = <<>> /\ i = 0 /\ repo_path = EmptyStr
    /\ results = <<>> /\ messages = <<>> /\ report = NoReport
    /\ workflow_file \in Documents(MaxNodes) \cup {Invalid}
    /\ uses_references = {}
    /\ xpc = "ready"

ExtractCall ==
    /\ xpc = "ready"
    /\ LET r == extract_uses_from_workflow(workflow_file)
       IN /\ uses_references' = r.uses
          /\ xpc' = IF r.raised THEN "raised" ELSE "returned"
    /\ UNCHANGED <<workflow_file, pipelineVars>>

ExtractNext == ExtractCall

SpecExtract == ExtractInit /\ [][ExtractNext]_vars

\* every node of a document: the document, and the nodes of its children
RECURSIVE Nodes(_)
Nodes(d) ==
    {d} \cup (IF d.t = "list" THEN UNION {Nodes(d.v[k]) : k \in 1..Len(d.v)}
              ELSE IF d.t = "dict" THEN UNION {Nodes(d.v[k][2]) : k \in 1..Len(d.v)}
              ELSE {})

\* the string values held under the key `uses` by some mapping of the document
UsesValues(d) ==
    {e[2].v : e \in {x \in UNION {Range(m.v) : m \in {n \in Nodes(d) : n.t = "dict"}}
                       : x[1] = KeyUses /\ x[2].t = "str"}}

IsLocal(s) == Len(s) >= 2 /\ s[1] = 46 /\ s[2] = 47

\* C1: for a document whose top-level value is a mapping, the set returned is
\* exactly the string values under a key `uses` at any depth that do not start
\* with "./".
C1_ExactExternalUses ==
    (xpc = "returned" /\ workflow_file.t = "dict")
        => uses_references = {s \in UsesValues(workflow_file) : ~IsLocal(s)}

\* a@v1 found three levels down while a top-level "./l" is left out
C1_Witness ==
    /\ xpc = "returned"
    /\ workflow_file =
         Dict(<< <<KeyJobs, List(<<Dict(<< <<KeyUses, Str(RefA)>> >>)>>)>>,
                 <<KeyUses, Str(RefLocal)>> >>)
    /\ uses_references = {RefA}

----------------------------------------------------------------------------
(* The organization on GitHub: what `gh repo list` and `git clone` can see *)

RepoA == <<111, 47, 97>>     \* "o/a"
RepoB == <<111, 47, 98>>     \* "o/b"
RepoC == <<111, 47, 99>>     \* "o/c"
RepoD == <<111, 47, 100>>    \* "o/d"
Repos == {RepoA, RepoB, RepoC, RepoD}

NameCi == <<99, 105, 46, 121, 109, 108>>                  \* "ci.yml"
NameRel == <<114, 101, 108, 46, 121, 97, 109, 108>>       \* "rel.yaml"
NameBad == <<98, 97, 100, 46, 121, 109, 108>>             \* "bad.yml"
NameNotes == <<110, 46, 116, 120, 116>>                   \* "n.txt"
NameList == <<108, 105, 115, 116, 46, 121, 109, 108>>     \* "list.yml"
NameLoc == <<108, 111, 99, 46, 121, 97, 109, 108>>        \* "loc.yaml"
NameScalar == <<115, 46, 121, 109, 108>>                  \* "s.yml"

Step(ref) == Dict(<< <<KeyUses, Str(ref)>> >>)
Jobs(steps) == Dict(<< <<KeyJobs, Dict(<< <<KeySteps, List(steps)>> >>)>> >>)

\* jobs: {steps: [{uses: a@v1}, {uses: ./l}, {uses: a@v1}]}
DocCi == Jobs(<<Step(RefA), Step(RefLocal), Step(RefA)>>)
\* jobs: {uses: b@v1, steps: [{uses: a@v1}]}
DocRel == Dict(<< <<KeyJobs, Dict(<< <<KeyUses, Str(RefB)>>,
                                     <<KeySteps, List(<<Step(RefA)>>)>> >>)>> >>)
\* [{uses: z@v1}]: a list at top level
DocList == List(<<Step(RefZ)>>)
\* jobs: {steps: [{uses: ./l}]}
DocLoc == Jobs(<<Step(RefLocal)>>)
\* jobs: {steps: [{uses: c@v1}, {uses: b@v1}]}
DocC == Jobs(<<Step(RefC), Step(RefB)>>)

File(name, content) == [name |-> name, content |-> content]

\* the .github/workflows directory of a repository's default branch
Remote(r) ==
    IF r = RepoA
    THEN [exists |-> TRUE,
          entries |-> {File(NameCi, DocCi), File(NameRel, DocRel),
                       File(NameBad, Invalid), File(NameNotes, Step(RefZ))}]
    ELSE IF r = RepoB
    THEN [exists |-> TRUE,
          entries |-> {File(NameList, DocList), File(NameLoc, DocLoc),
                       File(NameScalar, Str(RefZ))}]
    ELSE IF r = RepoC
    THEN [exists |-> TRUE, entries |-> {File(NameCi, DocC)}]
    ELSE [exists |-> FALSE, entries |-> {}]

AllRefs == {RefA, RefB, RefC, RefZ}

\* the lines `gh repo list` can print: name, description and visibility
\* separated by tabs, or an empty line
GhLines == {<<r, <<100>>, <<112>>>> : r \in Repos} \cup {<<EmptyStr>>}
GhOutputs ==
    [ok : {FALSE}, lines : {<<>>}]
    \cup [ok : {TRUE}, lines : UNION {[1..n -> GhLines] : n \in 0..MaxRepos}]

----------------------------------------------------------------------------
(* Insertion-ordered dict: a sequence of <<key, value>> with distinct keys *)

DictKeys(d) == [k \in 1..Len(d) |-> d[k][1]]
DictHas(d, key) == \E k \in 1..Len(d) : d[k][1] = key
DictGet(d, key) == d[CHOOSE k \in 1..Len(d) : d[k][1] = key][2]
\* d[key] = value: an existing key keeps its position
DictSet(d, key, value) ==
    IF DictHas(d, key)
    THEN [k \in 1..Len(d) |-> IF d[k][1] = key THEN <<key, value>> ELSE d[k]]
    ELSE Append(d, <<key, value>>)

----------------------------------------------------------------------------
(* run_command, list_organization_repos, shallow_clone_repo *)

\* the stripped stdout, "" when the command failed
run_command(out) ==
    LET blank(line) == \A f \in Range(line) : f = EmptyStr
        RECURSIVE lstrip(_)
        lstrip(ls) == IF ls # <<>> /\ blank(Head(ls)) THEN lstrip(Tail(ls)) ELSE ls
        RECURSIVE rstrip(_)
        rstrip(ls) == IF ls # <<>> /\ blank(ls[Len(ls)])
                      THEN rstrip(SubSeq(ls, 1, Len(ls) - 1)) ELSE ls
    IN IF out.ok THEN rstrip(lstrip(out.lines)) ELSE <<>>

list_organization_repos(out) ==
    LET output == run_command(out)
        RECURSIVE parse(_, _)
        parse(ls, acc) ==
            IF ls = <<>> THEN acc
            ELSE IF \E f \in Range(Head(ls)) : f # EmptyStr
                 THEN parse(Tail(ls), Append(acc, Head(ls)[1]))
                 ELSE parse(Tail(ls), acc)
    IN IF output = <<>> THEN <<>> ELSE parse(output, <<>>)

\* repo_name.split('/')[-1]
RECURSIVE LastSegment(_)
LastSegment(s) ==
    IF \E k \in 1..Len(s) : s[k] = 47
    THEN LastSegment(Tail(s))
    ELSE s

\* the working copies under temp_dir after `git clone`: it creates the
\* directory when it succeeds, and refuses a directory that is there already
CloneEffect(repo_name, git_ok, dirs) ==
    IF git_ok /\ LastSegment(repo_name) \notin dirs
    THEN dirs \cup {LastSegment(repo_name)}
    ELSE dirs

\* the path returned: os.path.exists(repo_path) decides, not the command
shallow_clone_repo(repo_name, dirs) ==
    IF LastSegment(repo_name) \in dirs THEN LastSegment(repo_name) ELSE EmptyStr

\* what a working copy holds: the repository cloned into it
Checkout(path) == Remote(CHOOSE r \in Repos : LastSegment(r) = path)

----------------------------------------------------------------------------
(* find_workflow_files, analyze_repository_workflows *)

\* listing: os.listdir of the workflows directory, in the order it gave
find_workflow_files(dir_exists, listing) ==
    IF ~dir_exists THEN <<>>
    ELSE SelectSeq(listing,
                   LAMBDA f : endswith(f.name, ExtYml) \/ endswith(f.name, ExtYaml))

\* analyze_repository_workflows without `if uses_refs:`: every file is recorded
analyze_repository_workflows_KeepEmpty(dir_exists, listing) ==
    LET workflow_files == find_workflow_files(dir_exists, listing)
        RECURSIVE loop(_, _)
        loop(files, all_uses) ==
            IF files = <<>> THEN [raised |-> FALSE, workflows |-> all_uses]
            ELSE LET r == extract_uses_from_workflow(Head(files).content)
                 IN IF r.raised THEN [raised |-> TRUE, workflows |-> all_uses]
                    ELSE loop(Tail(files), DictSet(all_uses, Head(files).name, r.uses))
    IN IF workflow_files = <<>> THEN [raised |-> FALSE, workflows |-> <<>>]
       ELSE loop(workflow_files, <<>>)

analyze_repository_workflows(dir_exists, listing) ==
    LET workflow_files == find_workflow_files(dir_exists, listing)
        RECURSIVE loop(_, _)
        loop(files, all_uses) ==
            IF files = <<>> THEN [raised |-> FALSE, workflows |-> all_uses]
            ELSE LET r == extract_uses_from_workflow(Head(files).content)
                 IN IF r.raised THEN [raised |-> TRUE, workflows |-> all_uses]
                    ELSE IF r.uses # {}
                    THEN loop(Tail(files), DictSet(all_uses, Head(files).name, r.uses))
                    ELSE loop(Tail(files), all_uses)
    IN IF workflow_files = <<>> THEN [raised |-> FALSE, workflows |-> <<>>]
       ELSE loop(workflow_files, <<>>)

----------------------------------------------------------------------------
(* generate_report *)

TopN == 20

\* iteration over a set: hash order, here the order `ord` puts its elements in
SetIter(S, ord) == SelectSeq(ord, LAMBDA x : x \in S)

Line(tag, text) == [tag |-> tag, text |-> text]

\* lines 172-175
all_external_actions(res) ==
    UNION {UNION {res[k][2][j][2] : j \in 1..Len(res[k][2])} : k \in 1..Len(res)}

\* counting over the union of the sets: every action counts once
action_counts_Distinct(res, ord) ==
    LET acts == SetIter(all_external_actions(res), ord)
    IN [k \in 1..Len(acts) |-> <<acts[k], 1>>]

\* lines 206-210: the counts, in the order the actions are first met
action_counts(res, ord) ==
    LET RECURSIVE count_actions(_, _)
        count_actions(acts, counts) ==
            IF acts = <<>> THEN counts
            ELSE LET action == Head(acts)
                     seen == IF DictHas(counts, action) THEN DictGet(counts, action) ELSE 0
                 IN count_actions(Tail(acts), DictSet(counts, action, seen + 1))
        RECURSIVE count_files(_, _)
        count_files(workflows, counts) ==
            IF workflows = <<>> THEN counts
            ELSE count_files(Tail(workflows),
                             count_actions(SetIter(Head(workflows)[2], ord), counts))
        RECURSIVE count_repos(_, _)
        count_repos(rs, counts) ==
            IF rs = <<>> THEN counts
            ELSE count_repos(Tail(rs), count_files(Head(rs)[2], counts))
    IN count_repos(res, <<>>)

\* line 213: sorted(action_counts.items(), key=lambda x: x[1], reverse=True)
sorted_actions(counts) == sorted(counts, "count_descending")

\* lines 183-198: the lines of DETAILED RESULTS BY REPOSITORY
detailed_lines(res, ord) ==
    LET RECURSIVE ref_lines(_)
        ref_lines(refs) ==
            IF refs = <<>> THEN <<>>
            ELSE <<Line("ref", Head(refs))>> \o ref_lines(Tail(refs))
        RECURSIVE file_lines(_, _)
        file_lines(names, workflows) ==
            IF names = <<>> THEN <<>>
            ELSE LET uses_refs == DictGet(workflows, Head(names))
                 IN <<Line("file", Head(names))>>
                    \o (IF uses_refs # {}
                        THEN ref_lines(sorted(SetIter(uses_refs, ord), "ascending"))
                        ELSE <<Line("no_external", EmptyStr)>>)
                    \o file_lines(Tail(names), workflows)
        RECURSIVE repo_lines(_)
        repo_lines(names) ==
            IF names = <<>> THEN <<>>
            ELSE LET workflows == DictGet(res, Head(names))
                 IN (IF workflows = <<>>
                     THEN <<Line("no_workflows", Head(names))>>
                     ELSE <<Line("repo", Head(names))>>
                          \o file_lines(sorted(DictKeys(workflows), "ascending"), workflows))
                    \o repo_lines(Tail(names))
    IN repo_lines(sorted(DictKeys(res), "ascending"))

RECURSIVE SumLen(_)
SumLen(res) == IF res = <<>> THEN 0 ELSE Len(Head(res)[2]) + SumLen(Tail(res))

generate_report(res, ord) ==
    LET ranked == sorted_actions(action_counts(res, ord))
        any == all_external_actions(res) # {}
    IN [printed |-> TRUE,
        total_repos |-> Len(res),
        repos_with_workflows |-> Cardinality({k \in 1..Len(res) : res[k][2] # <<>>}),
        total_workflows |-> SumLen(res),
        unique_actions |-> Cardinality(all_external_actions(res)),
        detailed |-> detailed_lines(res, ord),
        popular_printed |-> any,
        popular |-> IF any
                    THEN SubSeq(ranked, 1, IF Len(ranked) < TopN THEN Len(ranked) ELSE TopN)
                    ELSE <<>>]

----------------------------------------------------------------------------
(* main *)

PcValues == {"start", "mktemp", "list", "clone", "analyze", "report",
             "done", "exited", "crashed", "idle"}
Terminal == {"done", "exited", "crashed"}

\* a directory made with mkdtemp and never removed
cleanup_Leak(dir) == dir

\* TemporaryDirectory.__exit__: the `with` block is left, by return or exception
cleanup(dir) == "removed"

Init ==
    /\ pc = "start" /\ exit_status = -1 /\ error = "none" /\ temp_dir = "absent"
    /\ cloned = {} /\ repos = <<>> /\ i = 0 /\ repo_path = EmptyStr
    /\ results = <<>> /\ messages = <<>> /\ report = NoReport
    /\ workflow_file = Invalid /\ uses_references = {} /\ xpc = "idle"

\* lines 227-238: FileNotFoundError when a tool is not installed
CheckTools ==
    /\ pc = "start"
    /\ \E gh_found, git_found \in BOOLEAN :
          IF ~gh_found
          THEN /\ messages' = Append(messages, "gh_not_found")
               /\ exit_status' = 1 /\ pc' = "exited"
          ELSE IF ~git_found
          THEN /\ messages' = Append(messages, "git_not_found")
               /\ exit_status' = 1 /\ pc' = "exited"
          ELSE /\ pc' = "mktemp"
               /\ UNCHANGED <<messages, exit_status>>
    /\ UNCHANGED <<error, temp_dir, cloned, repos, i, repo_path, results, report,
                   extractVars>>

\* line 241
CreateTempDir ==
    /\ pc = "mktemp"
    /\ temp_dir' = "exists"
    /\ pc' = "list"
    /\ UNCHANGED <<exit_status, error, cloned, repos, i, repo_path, results,
                   messages, report, extractVars>>

\* lines 245-251
ListRepos ==
    /\ pc = "list"
    /\ \E out \in GhOutputs :
          /\ repos' = list_organization_repos(out)
          /\ IF repos' = <<>>
             THEN /\ messages' = Append(messages, "no_repositories_found")
                  /\ temp_dir' = cleanup(temp_dir)
                  /\ exit_status' = 0
                  /\ pc' = "done"
                  /\ i' = i
             ELSE /\ i' = 1
                  /\ pc' = "clone"
                  /\ UNCHANGED <<messages, temp_dir, exit_status>>
    /\ results' = <<>>
    /\ UNCHANGED <<error, cloned, repo_path, report, extractVars>>

\* line 258
CloneRepo ==
    /\ pc = "clone"
    /\ \E git_ok \in BOOLEAN :
          /\ cloned' = CloneEffect(repos[i], git_ok, cloned)
          /\ repo_path' = shallow_clone_repo(repos[i], cloned')
    /\ pc' = "analyze"
    /\ UNCHANGED <<exit_status, error, temp_dir, repos, i, results, messages, report,
                   extractVars>>

\* the `else` branch left out: a repository that failed to clone is skipped
store_result_SkipFailed(res, repo_name, path, workflows) ==
    IF path # EmptyStr THEN DictSet(res, repo_name, workflows) ELSE res

\* `results = {}` inside the loop: each iteration starts the aggregate afresh
store_result_Reset(res, repo_name, path, workflows) ==
    IF path # EmptyStr
    THEN DictSet(<<>>, repo_name, workflows)
    ELSE DictSet(<<>>, repo_name, <<>>)

\* lines 260-265: results[repo_name] = workflows, or {} when the clone failed
store_result(res, repo_name, path, workflows) ==
    IF path # EmptyStr
    THEN DictSet(res, repo_name, workflows)
    ELSE DictSet(res, repo_name, <<>>)

\* lines 260-265, and the loop's next iteration or its end
AnalyzeRepo ==
    /\ pc = "analyze"
    /\ \E listing \in Orders(IF repo_path # EmptyStr
                             THEN Checkout(repo_path).entries ELSE {}) :
          LET a == IF repo_path # EmptyStr
                   THEN analyze_repository_workflows(Checkout(repo_path).exists, listing)
                   ELSE [raised |-> FALSE, workflows |-> <<>>]
          IN IF a.raised
             THEN /\ error' = "workflow"
                  /\ exit_status' = 1
                  /\ temp_dir' = cleanup(temp_dir)
                  /\ cloned' = IF temp_dir' = "removed" THEN {} ELSE cloned
                  /\ pc' = "crashed"
                  /\ UNCHANGED <<results, i>>
             ELSE /\ results' = store_result(results, repos[i], repo_path, a.workflows)
                  /\ i' = i + 1
                  /\ pc' = IF i = Len(repos) THEN "report" ELSE "clone"
                  /\ UNCHANGED <<error, exit_status, temp_dir, cloned>>
    /\ UNCHANGED <<repos, repo_path, messages, report, extractVars>>

\* line 268, and the end of the `with` block
GenerateReport ==
    /\ pc = "report"
    /\ \E ord \in Orders(AllRefs) : report' = generate_report(results, ord)
    /\ temp_dir' = cleanup(temp_dir)
    /\ cloned' = IF temp_dir' = "removed" THEN {} ELSE cloned
    /\ exit_status' = 0
    /\ pc' = "done"
    /\ UNCHANGED <<error, repos, i, repo_path, results, messages, extractVars>>

\* an exception no handler catches (OSError from the file system, an
\* interrupt) raised inside the `with` block
FatalError ==
    /\ pc \in {"list", "clone", "analyze", "report"}
    /\ error' = "external"
    /\ exit_status' = 1
    /\ temp_dir' = cleanup(temp_dir)
    /\ cloned' = IF temp_dir' = "removed" THEN {} ELSE cloned
    /\ pc' = "crashed"
    /\ UNCHANGED <<repos, i, repo_path, results, messages, report, extractVars>>

Next ==
    \/ CheckTools
    \/ CreateTempDir
    \/ ListRepos
    \/ CloneRepo
    \/ AnalyzeRepo
    \/ GenerateReport
    \/ FatalError

Spec == Init /\ [][Next]_vars

----------------------------------------------------------------------------
(* Views of the state used by the properties *)

\* a repository's workflows as a mapping: the set of its <<file, reference set>>
WorkflowMap(workflows) == {<<workflows[j][1], workflows[j][2]>> : j \in 1..Len(workflows)}

\* the aggregate as a mapping
ResultMap(res) == {<<res[k][1], WorkflowMap(res[k][2])>> : k \in 1..Len(res)}

\* the (repository, file) pairs of the aggregate whose reference set holds a
PairsUsing(a) ==
    {p \in UNION {{<<k, j>> : j \in 1..Len(results[k][2])} : k \in 1..Len(results)}
       : a \in results[p[1]][2][p[2]][2]}

IsWorkflowName(name) ==
    \/ Len(name) >= 4 /\ SubSeq(name, Len(name) - 3, Len(name)) = <<46, 121, 109, 108>>
    \/ Len(name) >= 5 /\ SubSeq(name, Len(name) - 4, Len(name)) = <<46, 121, 97, 109, 108>>

\* what a working copy of r holds, read off the repository: its workflow files
\* that decode to a mapping with at least one external reference
ExpectedWorkflowMap(r) ==
    {<<f.name, {s \in UsesValues(f.content) : ~IsLocal(s)}>> :
        f \in {g \in Remote(r).entries :
                 /\ IsWorkflowName(g.name)
                 /\ g.content.t = "dict"
                 /\ \E s \in UsesValues(g.content) : ~IsLocal(s)}}

StrictlyAscending(s) == \A k \in 1..(Len(s) - 1) : StrLess(s[k], s[k + 1])

\* the structure read back from the lines of the detailed section
DecodeDetailed(lines) ==
    LET RECURSIVE parse(_, _)
        parse(ls, acc) ==
            IF ls = <<>> THEN acc
            ELSE LET l == Head(ls)
                     n == Len(acc)
                     acc1 ==
                       IF l.tag \in {"repo", "no_workflows"}
                       THEN Append(acc, <<l.text, <<>>>>)
                       ELSE IF l.tag = "file"
                       THEN [acc EXCEPT ![n] = <<acc[n][1], Append(acc[n][2], <<l.text, <<>>>>)>>]
                       ELSE IF l.tag = "ref"
                       THEN LET fs == acc[n][2]
                                m == Len(fs)
                            IN [acc EXCEPT ![n] =
                                  <<acc[n][1],
                                    [fs EXCEPT ![m] = <<fs[m][1], Append(fs[m][2], l.text)>>]>>]
                       ELSE acc
                 IN parse(Tail(ls), acc1)
    IN parse(lines, <<>>)

----------------------------------------------------------------------------
(* Properties *)

\* C2: the most-popular table is in descending count, and of two references
\* with equal counts the lexicographically smaller one comes first.
C2_RankedWithLexicographicTies ==
    report.popular_printed =>
        \A a, b \in 1..Len(report.popular) :
            a < b => \/ report.popular[a][2] > report.popular[b][2]
                     \/ /\ report.popular[a][2] = report.popular[b][2]
                        /\ StrLess(report.popular[a][1], report.popular[b][1])

\* C3: a run whose lister yields no repository prints the message, produces
\* no report and ends with a non-zero exit status.
C3_NoRepositoriesExitsNonZero ==
    (pc = "done" /\ repos = <<>>) =>
        /\ \E k \in 1..Len(messages) : messages[k] = "no_repositories_found"
        /\ ~report.printed
        /\ exit_status # 0

\* C4: an undecodable document, or one that is not a mapping at top level,
\* contributes no reference and raises nothing: no run ends because of a
\* workflow file, after the loop every cloned repository holds exactly its
\* files that decode to a mapping with an external reference, and a run that
\* listed a repository and ends normally has printed the report.
C4_BadDocumentContributesNothing ==
    /\ error # "workflow"
    /\ pc = "report" =>
          \A k \in 1..Len(results) :
              LastSegment(results[k][1]) \in cloned
                  => WorkflowMap(results[k][2]) = ExpectedWorkflowMap(results[k][1])
    /\ (pc = "done" /\ repos # <<>>) => report.printed

\* o/a (with bad.yml) then o/b (a list and a scalar at top level): both of
\* o/a's good files are kept, o/b is processed, the report is printed
C4_Witness ==
    /\ pc = "done" /\ report.printed
    /\ Len(results) = 2
    /\ results[1][1] = RepoA /\ Len(results[1][2]) = 2
    /\ results[2][1] = RepoB /\ results[2][2] = <<>>
    /\ report.total_workflows = 2

\* C5: after the main loop every listed repository is a key of the aggregate,
\* and a repository of which no clone succeeded maps to the empty mapping.
C5_FailedFetchRecordedEmpty ==
    /\ pc = "report" =>
          \A k \in 1..Len(repos) :
              /\ DictHas(results, repos[k])
              /\ LastSegment(repos[k]) \notin cloned => DictGet(results, repos[k]) = <<>>
    /\ report.printed => \A k \in 1..Len(repos) : DictHas(results, repos[k])

\* o/a failed to clone and is recorded empty next to o/c, which was analysed
C5_Witness ==
    /\ pc = "report"
    /\ LastSegment(RepoA) \notin cloned /\ LastSegment(RepoC) \in cloned
    /\ DictHas(results, RepoA) /\ DictGet(results, RepoA) = <<>>
    /\ DictHas(results, RepoC) /\ DictGet(results, RepoC) # <<>>

\* C6: the count printed for a reference is the number of (repository, file)
\* pairs whose reference set holds it, every reference of the aggregate has a
\* row, and the number of distinct references reported is the number of
\* strings with a count of at least 1.
C6_CountsArePairCounts ==
    report.printed =>
        LET used == {a \in AllRefs \cup {RefLocal} : Cardinality(PairsUsing(a)) >= 1}
        IN /\ report.unique_actions = Cardinality(used)
           /\ report.popular_printed = (used # {})
           /\ Cardinality(used) <= TopN =>
                 /\ Len(report.popular) = Cardinality(used)
                 /\ \A a \in used :
                       \E k \in 1..Len(report.popular) :
                           report.popular[k] = <<a, Cardinality(PairsUsing(a))>>

\* a@v1 occurs twice in o/a's ci.yml and once in rel.yaml: it counts 2
C6_Witness ==
    /\ report.printed
    /\ DictHas(results, RepoA) /\ Len(DictGet(results, RepoA)) = 2
    /\ \E k \in 1..Len(report.popular) : report.popular[k] = <<RefA, 2>>
    /\ report.unique_actions >= 2

\* C7: the temporary directory exists exactly while main is inside the `with`
\* block, so no terminal state of the run leaves it, or a working copy under
\* it, in existence.
C7_TempDirRemovedOnEveryExit ==
    /\ (temp_dir = "exists") = (pc \in {"list", "clone", "analyze", "report"})
    /\ pc \in Terminal => (temp_dir # "exists" /\ cloned = {})
    /\ pc \in {"done", "crashed"} => temp_dir = "removed"

\* a fatal error after a repository was cloned and recorded
C7_Witness ==
    /\ pc = "crashed" /\ error = "external"
    /\ results # <<>> /\ results[1][2] # <<>>
    /\ temp_dir = "removed"

C9_ValueNeverChanges ==
    [][\A k \in 1..Len(results) :
          /\ k <= Len(results')
          /\ results'[k][1] = results[k][1]
          /\ WorkflowMap(results'[k][2]) = WorkflowMap(results[k][2])]_vars

\* the keys of the aggregate are the repositories of the first n lines, in
\* the order of their first occurrence
RECURSIVE FirstOccurrences(_, _)
FirstOccurrences(s, acc) ==
    IF s = <<>> THEN acc
    ELSE FirstOccurrences(Tail(s),
                          IF Head(s) \in Range(acc) THEN acc ELSE Append(acc, Head(s)))

\* C9 amended: repositories are handled one at a time in lister order, a key
\* is written only once the fetch of its repository has returned, a key is
\* never removed and its value changes only while a later occurrence of the
\* same identifier is handled, and the report is generated only after every
\* listed repository has been written.
C9_MonotoneUpToRelisting ==
    /\ [][/\ \A k \in 1..Len(results) :
                /\ k <= Len(results')
                /\ results'[k][1] = results[k][1]
                /\ results'[k][2] # results[k][2]
                      => (pc = "analyze" /\ repos[i] = results[k][1])
          /\ results' # results =>
                /\ pc = "analyze"
                /\ repo_path = shallow_clone_repo(repos[i], cloned)
                /\ DictHas(results', repos[i])]_vars
    /\ [](pc \in {"clone", "analyze"} =>
             DictKeys(results) = FirstOccurrences(SubSeq(repos, 1, i - 1), <<>>))
    /\ []((pc = "report" \/ report.printed) =>
             /\ i = Len(repos) + 1
             /\ DictKeys(results) = FirstOccurrences(repos, <<>>))

\* o/a listed twice: recorded empty after a failed clone, and about to be
\* overwritten now that its second clone has succeeded
C9_Witness ==
    /\ pc = "analyze" /\ i = 3
    /\ repos = <<RepoA, RepoC, RepoA>>
    /\ DictHas(results, RepoA) /\ DictGet(results, RepoA) = <<>>
    /\ repo_path = LastSegment(RepoA)

\* C10: every workflow-file key of the aggregate maps to a non-empty set, so
\* the total printed is the number of files that yielded a reference, the
\* report never prints "No external actions", and a repository whose files all
\* yield nothing is recorded like one without a workflow directory.
C10_NoEmptyReferenceSet ==
    /\ \A k \in 1..Len(results) :
          \A j \in 1..Len(results[k][2]) : results[k][2][j][2] # {}
    /\ pc = "report" =>
          \A k \in 1..Len(results) :
              LastSegment(results[k][1]) \in cloned =>
                  Len(results[k][2]) = Cardinality(ExpectedWorkflowMap(results[k][1]))
    /\ \A k \in 1..Len(results) :
          results[k][1] \in {RepoB, RepoD} => results[k][2] = <<>>
    /\ report.printed =>
          /\ \A k \in 1..Len(report.detailed) : report.detailed[k].tag # "no_external"
          /\ report.total_workflows =
                Cardinality(UNION {{<<k, j>> : j \in 1..Len(results[k][2])}
                                     : k \in 1..Len(results)})

\* o/b was cloned, its three workflow files yield nothing, and it is recorded
\* as o/d, which has no workflow directory, is
C10_Witness ==
    /\ pc = "report"
    /\ LastSegment(RepoB) \in cloned /\ LastSegment(RepoD) \in cloned
    /\ DictHas(results, RepoB) /\ DictGet(results, RepoB) = <<>>
    /\ DictHas(results, RepoD) /\ DictGet(results, RepoD) = <<>>

====
